---- MODULE Spec2Model ----
(***************************************************************************)
(* Model of the ranking core of grantmatch-app:                            *)
(*   services/match.py       _normalize_tokens, _recency_overlap_bonus,    *)
(*                           _fallback_score, rank_calls                   *)
(*   services/llm_client.py  llm_json (generation / repair round trips)    *)
(*   services/profile.py     build_prof_profile and the recency weights    *)
(*   services/calls.py       _normalize_call, fetch_calls                  *)
(*   app.py                  the re-rank of an unchanged profile and list  *)
(*                                                                         *)
(* Spec is one rank_calls invocation, SpecRerank two in a row, SpecProfile *)
(* one build_prof_profile invocation, SpecCalls one fetch_calls one.       *)
(*                                                                         *)
(* Python values are represented as follows.                               *)
(*   str      a TLA+ string; characters are read with SubSeq(s, i, i)      *)
(*   dict     a record (a function on key strings); d.get(k, dflt) is Get  *)
(*   list     a sequence                                                   *)
(*   float    an integer count of quarters (0.25): every float the model   *)
(*            uses is a multiple of 0.25, on which IEEE arithmetic is      *)
(*            exact, so the integer arithmetic below is the float's        *)
(*   a value of unknown type (a profile field, a listing of the input      *)
(*   list, anything parsed from the service's JSON) is a tagged record     *)
(*        [t |-> "null"]  [t |-> "bool", b |-> _]  [t |-> "int", n |-> _]  *)
(*        [t |-> "float", q |-> _]  [t |-> "str", s |-> _]                 *)
(*        [t |-> "list", l |-> _]   [t |-> "dict", d |-> _]                *)
(*   The fields of a listing are strings (ListingNormalizer's output).     *)
(*   The strings the code formats into why_fit are records naming the      *)
(*   format and its arguments: [t |-> "overlap", hits |-> _],              *)
(*   [t |-> "bonus", tenths |-> _], [t |-> "trailer"],                     *)
(*   [t |-> "failed", e |-> _].                                            *)
(***************************************************************************)
EXTENDS Integers, Sequences, FiniteSets, TLC

VARIABLES
    profile,     \* rank_calls' argument profile
    calls,       \* rank_calls' argument calls
    attempt_id,  \* rank_calls' argument attempt_id
    pc,          \* "start", "generate" (llm_json awaits a generation),
                 \* "repair" (llm_json awaits a repair), "done"
    i,           \* llm_json's loop index
    last_text,   \* llm_json's last_text
    last_err,    \* llm_json's last_err
    requests,    \* the round trips to the service so far, in order
    data,        \* what llm_json returned to rank_calls
    failure,     \* the exception rank_calls' except: branch caught ("" if none)
    outcome,     \* "none", "returned" or "raised": how rank_calls ended
    result,      \* the list rank_calls returned
    prev,        \* app.py: what the invocation before this re-rank returned
    pubs_text,   \* build_prof_profile's argument pubs_text
    built,       \* how build_prof_profile ended: the profile, or the exception
    line_log,    \* _build_keyword_recency_weights: line, y, w of each loop turn
    use,         \* fetch_calls' arguments use_nsf, use_doe, use_grants
    feeds,       \* what each source gives when it is fetched
    fetched,     \* fetch_calls' local list calls
    errors,      \* fetch_calls' list errors
    normalized   \* the list fetch_calls returned

rankVars == <<profile, calls, attempt_id, data, failure, outcome, result>>

llmVars == <<pc, i, last_text, last_err, requests>>

buildVars == <<pubs_text, built, line_log>>

fetchVars == <<use, feeds, fetched, errors, normalized>>

vars == <<rankVars, llmVars, prev, buildVars, fetchVars>>

(***************************************************************************)
(* Text: str.lower, the tokenizer's character classes, split, substring.   *)
(***************************************************************************)
UpperChars == "ABCDEFGHIJKLMNOPQRSTUVWXYZ"
LowerChars == "abcdefghijklmnopqrstuvwxyz"
DigitChars == "0123456789"
SpaceChars == " \t\n"

Ch(s, k) == SubSeq(s, k, k)

CharsOf(s) == {Ch(s, k) : k \in 1..Len(s)}

UpperSet == CharsOf(UpperChars)
LowerSet == CharsOf(LowerChars)
DigitSet == CharsOf(DigitChars)
SpaceSet == CharsOf(SpaceChars)

\* str.lower() of one character (ASCII)
LowerOf == [c \in UpperSet |->
              Ch(LowerChars, CHOOSE k \in 1..Len(UpperChars) : Ch(UpperChars, k) = c)]

LowerCh(c) == IF c \in UpperSet THEN LowerOf[c] ELSE c

RECURSIVE Lower(_)
Lower(s) == IF s = "" THEN "" ELSE LowerCh(Ch(s, 1)) \o Lower(SubSeq(s, 2, Len(s)))

\* re.sub(r"[^a-z0-9\s\-]", " ", text), one character
SubCh(c) ==
    IF c \in LowerSet \/ c \in DigitSet \/ c \in SpaceSet \/ c = "-"
    THEN c ELSE " "

RECURSIVE SubNonWord(_)
SubNonWord(s) == IF s = "" THEN "" ELSE SubCh(Ch(s, 1)) \o SubNonWord(SubSeq(s, 2, Len(s)))

\* str.split(): the maximal runs of non-whitespace characters, as a set
\* (the tokenizer only ever builds a set from them)
RECURSIVE SplitFrom(_, _, _)
SplitFrom(s, k, cur) ==
    IF k > Len(s) THEN (IF cur = "" THEN {} ELSE {cur})
    ELSE IF Ch(s, k) \in SpaceSet
         THEN (IF cur = "" THEN {} ELSE {cur}) \cup SplitFrom(s, k + 1, "")
         ELSE SplitFrom(s, k + 1, cur \o Ch(s, k))

Split(s) == SplitFrom(s, 1, "")

\* needle in hay
Contains(hay, needle) ==
    \E k \in 1..(Len(hay) - Len(needle) + 1) : SubSeq(hay, k, k + Len(needle) - 1) = needle

\* " ".join(parts)
RECURSIVE Join(_)
Join(parts) ==
    IF parts = <<>> THEN ""
    ELSE IF Len(parts) = 1 THEN parts[1]
    ELSE parts[1] \o " " \o Join(Tail(parts))

Get(d, k, dflt) == IF k \in DOMAIN d THEN d[k] ELSE dflt

(***************************************************************************)
(* Numbers.  A float is n quarters; Quarter is the number of units in 1.0. *)
(***************************************************************************)
Quarter == 4

Min(a, b) == IF b < a THEN b ELSE a
Max(a, b) == IF b > a THEN b ELSE a

\* Python round(): nearest integer of num/den (den > 0), ties to even
RoundHalfEven(num, den) ==
    LET f == num \div den
        r == num % den
    IN  IF 2 * r < den THEN f
        ELSE IF 2 * r > den THEN f + 1
        ELSE IF f % 2 = 0 THEN f ELSE f + 1

RECURSIVE SumOver(_, _)
SumOver(f, S) ==
    IF S = {} THEN 0
    ELSE LET k == CHOOSE k \in S : TRUE IN f[k] + SumOver(f, S \ {k})

(***************************************************************************)
(* services/match.py                                                       *)
(***************************************************************************)
MinTokenLen == 3

_normalize_tokens(text) ==
    {t \in Split(SubNonWord(Lower(text))) : Len(t) >= MinTokenLen}

\* Python truthiness of a tagged value (the "x or default" idiom)
Falsy(v) ==
    \/ v.t = "null"
    \/ v.t = "int"   /\ v.n = 0
    \/ v.t = "float" /\ v.q = 0
    \/ v.t = "bool"  /\ ~v.b
    \/ v.t = "str"   /\ v.s = ""
    \/ v.t = "list"  /\ v.l = <<>>
    \/ v.t = "dict"  /\ DOMAIN v.d = {}

Null == [t |-> "null"]
EmptyList == [t |-> "list", l |-> <<>>]
EmptyDict == [t |-> "dict", d |-> <<>>]

\* (d.get(k, dflt) or dflt) for a tagged default
GetOr(d, k, dflt) == LET v == Get(d, k, dflt) IN IF Falsy(v) THEN dflt ELSE v

\* The bonus in quarters.  prof is the profile dict (rank_calls checked it).
_recency_overlap_bonus(prof, call_item, cap, scale) ==
    LET rw        == GetOr(prof, "keyword_recency_weights", EmptyDict)
        recency   == IF rw.t = "dict" THEN rw.d ELSE <<>>
        call_text == Lower(Join(<<Get(call_item, "title", ""),
                                  Get(call_item, "summary", ""),
                                  Get(call_item, "agency", "")>>))
        hit       == {kw \in DOMAIN recency : kw # "" /\ Contains(call_text, Lower(kw))}
    IN  IF DOMAIN recency = {} THEN 0
        ELSE Min(cap * Quarter, SumOver(recency, hit) * scale)

FallbackCap == 20
BonusScale  == 6
BaseEmpty   == 5
BaseFloor   == 10
PerOverlap  == 6
ScoreMax    == 100
MaxHits     == 8

\* Clamp without the upper bound
ClampLow(n) == Max(0, n)

Clamp(n) == Max(0, Min(ScoreMax, n))

FallbackPitch == "Angle: connect the professor's core methods/themes to the call's focus."

\* f"{recency_bonus:.1f}": the bonus in tenths, ties to even
Fmt1(q) == RoundHalfEven(q * 10, Quarter)

\* f"Recent-publication bonus applied (+{recency_bonus:.1f})"
BonusNote(q) == [t |-> "bonus", tenths |-> Fmt1(q)]

\* the first MaxHits elements of list(A & B): the set's iteration order is an
\* implementation matter; every order gives the same set when it has at most
\* MaxHits elements
TopHits(S) ==
    IF Cardinality(S) <= MaxHits THEN S
    ELSE CHOOSE T \in SUBSET S : Cardinality(T) = MaxHits

\* dict(call) with the four ranking keys set
Overlay(call, score, why, pitch, mode) ==
    [k \in DOMAIN call \cup {"fit_score", "why_fit", "recommended_pitch", "rank_mode"} |->
        IF k = "fit_score" THEN score
        ELSE IF k = "why_fit" THEN why
        ELSE IF k = "recommended_pitch" THEN pitch
        ELSE IF k = "rank_mode" THEN mode
        ELSE call[k]]

\* base_score with "and" for "or": 5 only when both token sets are empty
BaseScoreBothEmpty(A, B) ==
    IF A = {} /\ B = {} THEN BaseEmpty
    ELSE Min(ScoreMax, BaseFloor + Cardinality(A \cap B) * PerOverlap)

\* base_score from the two token sets
base_score(A, B) ==
    IF A = {} \/ B = {} THEN BaseEmpty
    ELSE Min(ScoreMax, BaseFloor + Cardinality(A \cap B) * PerOverlap)

\* the why list of _fallback_score
FallbackWhy(hits, recency_bonus) ==
    (IF hits # {} THEN <<[t |-> "overlap", hits |-> TopHits(hits)]>> ELSE <<>>)
    \o (IF recency_bonus > 0 THEN <<BonusNote(recency_bonus)>> ELSE <<>>)
    \o <<[t |-> "trailer"]>>

\* _fallback_score once A, B and recency_bonus are computed
FallbackEntry(call, A, B, recency_bonus) ==
    Overlay(call,
            Clamp(RoundHalfEven(base_score(A, B) * Quarter + recency_bonus, Quarter)),
            [t |-> "list", l |-> FallbackWhy(A \cap B, recency_bonus)],
            [t |-> "str", s |-> FallbackPitch], "fallback")

_fallback_score(prof, call) ==
    FallbackEntry(call,
        _normalize_tokens(Join(GetOr(prof, "methods_keywords", EmptyList).l
                               \o GetOr(prof, "themes", EmptyList).l)),
        _normalize_tokens(Join(<<Get(call, "agency", ""), Get(call, "title", ""),
                                 Get(call, "summary", ""), Get(call, "deadline", "")>>)),
        _recency_overlap_bonus(prof, call, FallbackCap, BonusScale))


(***************************************************************************)
(* rank_calls, after llm_json has returned or raised                       *)
(***************************************************************************)
CompactLimit == 50
LlmCap       == 10
Threshold    == 50

IsDict(v) == v.t = "dict"

\* calls = [c for c in (calls or []) if isinstance(c, dict)], as plain dicts
DictsOf(cs) ==
    LET kept == SelectSeq(cs, IsDict)
    IN  SubSeq([k \in 1..Len(kept) |-> kept[k].d], 1, Len(kept))

\* the number of listings described in the prompt: calls[:50]
compact_calls_len(dcalls) == Min(CompactLimit, Len(dcalls))

\* a slice x[:n] raises TypeError unless x is a sequence type
Sliceable(v) == v.t \in {"list", "str"}

\* the prompt is built before the try: block; each of these slices can raise
PromptRaises(prof) ==
    \/ ~Sliceable(Get(prof, "themes", EmptyList))
    \/ ~Sliceable(Get(prof, "methods_keywords", EmptyList))
    \/ ~Sliceable(Get(prof, "domains", EmptyList))

\* int(s) for a str: optional sign, then decimal digits only
DigitVal(c) == (CHOOSE k \in 1..Len(DigitChars) : Ch(DigitChars, k) = c) - 1

RECURSIVE DigitsVal(_, _)
DigitsVal(s, acc) ==
    IF s = "" THEN acc
    ELSE DigitsVal(SubSeq(s, 2, Len(s)), acc * 10 + DigitVal(Ch(s, 1)))

AllDigits(s) == s # "" /\ \A k \in 1..Len(s) : Ch(s, k) \in DigitSet

IntOfStr(s) ==
    LET signed == s # "" /\ Ch(s, 1) \in {"-", "+"}
        body   == IF signed THEN SubSeq(s, 2, Len(s)) ELSE s
    IN  IF ~AllDigits(body) THEN [ok |-> FALSE, e |-> "ValueError"]
        ELSE [ok |-> TRUE,
              n  |-> IF signed /\ Ch(s, 1) = "-" THEN 0 - DigitsVal(body, 0)
                     ELSE DigitsVal(body, 0)]

\* int(v or 0)
IntOfOr0(v) ==
    IF Falsy(v) THEN [ok |-> TRUE, n |-> 0]
    ELSE IF v.t = "int" THEN [ok |-> TRUE, n |-> v.n]
    ELSE IF v.t = "bool" THEN [ok |-> TRUE, n |-> 1]
    ELSE IF v.t = "float"
         THEN [ok |-> TRUE, n |-> IF v.q >= 0 THEN v.q \div Quarter
                                  ELSE 0 - ((0 - v.q) \div Quarter)]
    ELSE IF v.t = "str" THEN IntOfStr(v.s)
    ELSE [ok |-> FALSE, e |-> "TypeError"]

\* idx as a list index once isinstance(idx, int) holds (True is 1, False is 0)
IndexOf(v) == IF v.t = "bool" THEN (IF v.b THEN 1 ELSE 0) ELSE v.n

ValidIdx(v, dcalls) ==
    /\ v.t \in {"int", "bool"}
    /\ IndexOf(v) >= 0
    /\ IndexOf(v) < Len(dcalls)

\* the body of the merge loop from "merged = dict(calls[idx])" on, given
\* base = int(fit_score or 0) and bonus = recency_bonus
MergedEntry(call, base, bonus, why, pitch) ==
    IF ~base.ok THEN [t |-> "raise", e |-> base.e]
    ELSE IF bonus > 0 /\ why.t # "list" THEN [t |-> "raise", e |-> "TypeError"]
    ELSE [t |-> "ok",
          merged |-> Overlay(call,
                             Clamp(RoundHalfEven(base.n * Quarter + bonus, Quarter)),
                             IF bonus > 0
                             THEN [t |-> "list", l |-> <<BonusNote(bonus)>> \o why.l]
                             ELSE why,
                             pitch, "llm")]

\* one turn of the merge loop: "skip" (continue), "raise", or "ok" with the
\* merged entry
MergeItem(prof, dcalls, item) ==
    IF ~IsDict(item) THEN [t |-> "skip"]
    ELSE
    LET idx == Get(item.d, "idx", Null) IN
    IF ~ValidIdx(idx, dcalls) THEN [t |-> "skip"]
    ELSE
    MergedEntry(dcalls[IndexOf(idx) + 1],
                IntOfOr0(Get(item.d, "fit_score", [t |-> "int", n |-> 0])),
                _recency_overlap_bonus(prof, dcalls[IndexOf(idx) + 1], LlmCap, BonusScale),
                GetOr(item.d, "why_fit", EmptyList),
                Get(item.d, "recommended_pitch", [t |-> "str", s |-> ""]))

\* the merge loop over ranked[k..]: [t |-> "raise", e] or [t |-> "ok", out]
RECURSIVE MergeFrom(_, _, _, _, _)
\* MergeNext with an error ending the loop instead of leaving the try: block:
\* what was merged so far is kept
MergeNextKeepsMerged(prof, dcalls, ranked, k, out, m) ==
    IF m.t = "raise" THEN [t |-> "ok", out |-> out]
    ELSE MergeFrom(prof, dcalls, ranked, k + 1,
                   IF m.t = "ok" THEN Append(out, m.merged) ELSE out)

\* the loop after turn k came to m
MergeNext(prof, dcalls, ranked, k, out, m) ==
    IF m.t = "raise" THEN m
    ELSE MergeFrom(prof, dcalls, ranked, k + 1,
                   IF m.t = "ok" THEN Append(out, m.merged) ELSE out)

MergeFrom(prof, dcalls, ranked, k, out) ==
    IF k > Len(ranked) THEN [t |-> "ok", out |-> out]
    ELSE MergeNext(prof, dcalls, ranked, k, out, MergeItem(prof, dcalls, ranked[k]))

\* ComesBefore for a sort that is not stable: equal scores end reversed
ComesBeforeUnstable(s, j, k) ==
    \/ s[j].fit_score > s[k].fit_score
    \/ s[j].fit_score = s[k].fit_score /\ j > k

\* list.sort(key=fit_score, reverse=True) is a stable sort: s[j] ends before
\* s[k] iff its score is higher, or equal with j < k.  place[k] is where s[k]
\* ends.
ComesBefore(s, j, k) ==
    \/ s[j].fit_score > s[k].fit_score
    \/ s[j].fit_score = s[k].fit_score /\ j < k

SortDesc(s) ==
    LET n     == Len(s)
        place == SubSeq([k \in 1..n |->
                           Cardinality({j \in 1..n : ComesBefore(s, j, k)}) + 1], 1, n)
    IN  SubSeq([p \in 1..n |-> s[CHOOSE k \in 1..n : place[k] = p]], 1, n)

\* AboveThreshold with the post-merge filter left out
KeepAll(x) == x.fit_score >= 0

AboveThreshold(x) == x.fit_score >= Threshold

\* FallbackScored with the listings of the prompt only (calls[:50])
FallbackScoredCompact(prof, dcalls) ==
    LET sent == SubSeq(dcalls, 1, Min(CompactLimit, Len(dcalls)))
    IN  SortDesc(SubSeq([k \in 1..Len(sent) |-> _fallback_score(prof, sent[k])], 1, Len(sent)))

\* scored = [_fallback_score(profile, c) for c in calls]; scored.sort(...)
\* _fallback_score is a function of (profile, listing), so it is evaluated
\* once for each distinct listing of the list.
FallbackScored(prof, dcalls) ==
    LET score_of == [c \in {dcalls[k] : k \in 1..Len(dcalls)} |-> _fallback_score(prof, c)]
                    @@ <<>>    \* (@@ makes TLC tabulate the function)
    IN  SortDesc(SubSeq([k \in 1..Len(dcalls) |-> score_of[dcalls[k]]], 1, Len(dcalls)))

FailedNote(e) == [t |-> "failed", e |-> e]

\* NoteFirst with the note put on every entry
NoteEvery(scored, e) ==
    SubSeq([k \in 1..Len(scored) |->
              [scored[k] EXCEPT !.why_fit.l = <<FailedNote(e)>> \o @]],
           1, Len(scored))

\* if scored: scored[0]["why_fit"] = [f"LLM ranking failed: {e}"] + ...
NoteFirst(scored, e) ==
    IF scored = <<>> THEN scored
    ELSE <<[scored[1] EXCEPT !.why_fit.l = <<FailedNote(e)>> \o @]>> \o Tail(scored)

\* the except: branch
FallbackAll(prof, dcalls, e) == NoteFirst(FallbackScored(prof, dcalls), e)

\* AfterMerge with the threshold filter run before the "if not out" test:
\* entries that are all below the threshold count as nothing merged
AfterMergeFilterFirst(m) ==
    IF m.t = "raise" THEN m
    ELSE IF SelectSeq(m.out, AboveThreshold) = <<>>
         THEN [t |-> "raise", e |-> "LLM ranked list could not be merged."]
         ELSE [t |-> "ok", out |-> SelectSeq(SortDesc(m.out), AboveThreshold)]

\* AfterMerge without the "if not out: raise": nothing merged is an empty result
AfterMergeNoRaise(m) ==
    IF m.t = "raise" THEN m
    ELSE [t |-> "ok", out |-> SelectSeq(SortDesc(m.out), AboveThreshold)]

\* the try: block after the merge loop came to m
AfterMerge(m) ==
    IF m.t = "raise" THEN m
    ELSE IF m.out = <<>>
         THEN [t |-> "raise", e |-> "LLM ranked list could not be merged."]
         ELSE [t |-> "ok", out |-> SelectSeq(SortDesc(m.out), AboveThreshold)]

\* ranked = data.get("ranked") if isinstance(data, dict) else None
ranked_of(d) == IF IsDict(d) THEN Get(d.d, "ranked", Null) ELSE Null

\* the try: block from the value llm_json returned:
\* [t |-> "raise", e] or [t |-> "ok", out]
TryBlock(prof, dcalls, d) ==
    IF ranked_of(d).t # "list"
    THEN [t |-> "raise", e |-> "LLM returned invalid ranked list format."]
    ELSE AfterMerge(MergeFrom(prof, dcalls, ranked_of(d).l, 1, <<>>))

(***************************************************************************)
(* services/llm_client.py: llm_json                                        *)
(***************************************************************************)
MaxRetries        == 2
GenTemperature    == 3    \* 0.3, in tenths
RepairTemperature == 0

\* What llm_text gives back for one round trip:
\*   [t |-> "raise", e |-> _]   the client raised (network, quota, ...)
\*   [t |-> "empty"]            "" after strip()
\*   [t |-> "text", fence |-> "none" | "tagged" | "bare", body |-> _]
\* "tagged" is ```json ... ```, "bare" is ``` ... ```.  body is a JSON value (a
\* tagged value) or [t |-> "garbage", s |-> _] for text json.loads rejects.
\* A body is taken not to contain the substring "json" itself, which
\* replace("json", "", 1) would otherwise delete from a bare-fenced body.
IsJson(body) == body.t # "garbage"

\* llm_json's handling of a generated text: startswith("```") strips the fence
GenParses(text) == text.t = "text" /\ IsJson(text.body)

\* the repaired text goes to json.loads after strip() only: a fence stays
RepairParses(text) == text.t = "text" /\ text.fence = "none" /\ IsJson(text.body)

\* MayRepair with the last attempt repaired too
MayRepairAlways(k) == k <= MaxRetries

\* "if i < max_retries": a repair follows every failed parse but the last
MayRepair(k) == k < MaxRetries

ParseFailure(err, text) ==
    "Failed to parse JSON. Last error: " \o err \o ". Model output snippet: " \o text

(***************************************************************************)
(* rank_calls as a whole                                                   *)
(***************************************************************************)
\* InputsAfter with "out = call" for "out = dict(call)": the keys are set on
\* the listing itself, and calls holds the ranked entry in its place
InputsAliased(cs, out) ==
    [k \in 1..Len(cs) |->
        IF IsDict(cs[k])
           /\ \E j \in 1..Len(out) : \A f \in DOMAIN cs[k].d : out[j][f] = cs[k].d[f]
        THEN [t |-> "dict",
              d |-> out[CHOOSE j \in 1..Len(out) : \A f \in DOMAIN cs[k].d : out[j][f] = cs[k].d[f]]]
        ELSE cs[k]]

\* the entries of calls once rank_calls has made out: "out = dict(call)" and
\* "merged = dict(calls[idx])" copy the listing before the ranking keys are
\* set, and the failure note goes to scored[0], a copy too
InputsAfter(cs, out) == cs

\* Return with the fallback taking the listings in reverse on odd attempts
ReturnSeeded(t, dcalls) ==
    /\ failure' = IF t.t = "raise" THEN t.e ELSE ""
    /\ result' = IF t.t = "raise"
                 THEN FallbackAll(profile.d,
                                  IF attempt_id % 2 = 0 THEN dcalls
                                  ELSE [k \in 1..Len(dcalls) |-> dcalls[Len(dcalls) + 1 - k]],
                                  t.e)
                 ELSE t.out
    /\ outcome' = "returned"
    /\ pc' = "done"

\* rank_calls from the return of llm_json to its own return
\* t is what the try: block came to
Return(t, dcalls) ==
    /\ failure' = IF t.t = "raise" THEN t.e ELSE ""
    /\ result' = IF t.t = "raise" THEN FallbackAll(profile.d, dcalls, t.e) ELSE t.out
    /\ outcome' = "returned"
    /\ pc' = "done"

ReturnFrom(d) ==
    /\ data' = d
    /\ Return(TryBlock(profile.d, DictsOf(calls), d), DictsOf(calls))

\* rank_calls from an exception out of llm_json to its own return
ExceptFrom(e) ==
    /\ UNCHANGED data
    /\ Return([t |-> "raise", e |-> e], DictsOf(calls))

\* EarlyReturn with "not calls" tested before the dict entries are selected
EarlyReturnUnfiltered(prof, cs) == ~IsDict(prof) \/ Falsy(prof) \/ cs = <<>>

\* the two early returns: "not profile or not isinstance(profile, dict)", and
\* "not calls" once calls holds the dict entries only
EarlyReturn(prof, cs) == ~IsDict(prof) \/ Falsy(prof) \/ DictsOf(cs) = <<>>

\* rank_calls up to the first round trip of llm_json
RankStart ==
    /\ pc = "start"
    /\ IF EarlyReturn(profile, calls)
       THEN /\ outcome' = "returned"
            /\ pc' = "done"
       ELSE IF PromptRaises(profile.d)
       THEN /\ outcome' = "raised"
            /\ pc' = "done"
       ELSE /\ pc' = "generate"
            /\ UNCHANGED outcome
    /\ UNCHANGED <<profile, attempt_id, i, last_text, last_err,
                   requests, data, failure, result>>
    /\ calls' = InputsAfter(calls, result')
    /\ UNCHANGED <<prev, buildVars, fetchVars>>

\* one llm_text(json_prompt) round trip and what follows it, up to the next
\* round trip or to rank_calls' return
Generate(text) ==
    /\ pc = "generate"
    /\ requests' = Append(requests, [op |-> "generate", temperature |-> GenTemperature])
    /\ IF text.t = "raise"
       THEN ExceptFrom(text.e) /\ UNCHANGED <<i, last_text, last_err>>
       ELSE IF text.t = "empty"
       THEN /\ last_text' = ""
            /\ last_err' = "Empty model output"
            /\ IF i < MaxRetries
               THEN i' = i + 1 /\ UNCHANGED <<pc, data, failure, outcome, result>>
               ELSE i' = i /\ ExceptFrom(ParseFailure("Empty model output", ""))
       ELSE IF GenParses(text)
       THEN ReturnFrom(text.body) /\ UNCHANGED <<i, last_text, last_err>>
       ELSE /\ last_text' = text.body.s
            /\ last_err' = "JSONDecodeError"
            /\ i' = i
            /\ IF MayRepair(i)
               THEN pc' = "repair" /\ UNCHANGED <<data, failure, outcome, result>>
               ELSE ExceptFrom(ParseFailure("JSONDecodeError", text.body.s))
    /\ UNCHANGED <<profile, attempt_id>>
    /\ calls' = InputsAfter(calls, result')
    /\ UNCHANGED <<prev, buildVars, fetchVars>>

\* one llm_text(repair_prompt, temperature=0.0) round trip and what follows it
Repair(text) ==
    /\ pc = "repair"
    /\ requests' = Append(requests, [op |-> "repair", temperature |-> RepairTemperature])
    /\ IF text.t = "raise"
       THEN ExceptFrom(text.e) /\ i' = i
       ELSE IF RepairParses(text)
       THEN ReturnFrom(text.body) /\ i' = i
       ELSE IF i < MaxRetries
       THEN /\ i' = i + 1
            /\ pc' = "generate"
            /\ UNCHANGED <<data, failure, outcome, result>>
       ELSE i' = i /\ ExceptFrom(ParseFailure(last_err, last_text))
    /\ UNCHANGED <<profile, attempt_id, last_text, last_err>>
    /\ calls' = InputsAfter(calls, result')
    /\ UNCHANGED <<prev, buildVars, fetchVars>>


(***************************************************************************)
(* The inputs and the service's answers the model ranges over              *)
(***************************************************************************)
MaxCalls       == 2   \* the longest short listing list
MaxExtra       == 1   \* the long lists have CompactLimit + 1 .. + MaxExtra listings
MaxRanked      == 2   \* the longest "ranked" list of a first answer

JStr(s)  == [t |-> "str", s |-> s]
JInt(n)  == [t |-> "int", n |-> n]
JList(l) == [t |-> "list", l |-> l]
JDict(d) == [t |-> "dict", d |-> d]

ListingA ==
    [agency |-> "NSF", title |-> "Robotics Control Grant", deadline |-> "",
     published |-> "2026", link |-> "https://a", summary |-> "advanced control systems"]
ListingB == [title |-> "Grid AI", link |-> "https://b", source |-> "doe_rss"]

CallPool == {JDict(ListingA), JDict(ListingB)}

\* an entry of calls that is no dict
NoCall == JStr("n/a")

RECURSIVE SeqsUpTo(_, _)
SeqsUpTo(S, n) ==
    IF n = 0 THEN {<<>>}
    ELSE LET shorter == SeqsUpTo(S, n - 1)
         IN  shorter \cup {Append(q, x) : q \in {r \in shorter : Len(r) = n - 1}, x \in S}

\* a long list: CompactLimit listings a, then the listings b
LongCalls(a, b, n) == [k \in 1..n |-> IF k <= CompactLimit THEN a ELSE b]

\* the short lists: listings only, or a non-dict entry and then listings
CallLists ==
    SeqsUpTo(CallPool, MaxCalls)
    \cup {<<NoCall>> \o cs : cs \in SeqsUpTo(CallPool, MaxCalls - 1)}
    \cup {LongCalls(JDict(ListingB), JDict(ListingA), CompactLimit + x) : x \in 1..MaxExtra}

Weights(w) == [t |-> "dict", d |-> w]

Profiles ==
    { Null,
      EmptyDict,
      JList(<<JStr("themes")>>),
      \* themes: null, as a service answer can leave it; the prompt's slice raises
      JDict([themes |-> Null, methods_keywords |-> JList(<<"robotics">>)]),
      JDict([methods_keywords |-> JList(<<"robotics", "control">>), themes |-> EmptyList]),
      JDict([methods_keywords |-> JList(<<"Robotics", "grid">>), themes |-> JList(<<"Control">>),
            keyword_recency_weights |-> Weights([Robotics |-> 4, grid |-> 1])]),
      \* a degraded profile, with weights outside [0, 1]
      JDict([keyword_recency_weights |-> Weights([control |-> -8, grid |-> -4, r |-> 40])]) }

AttemptIds == {0, 1}

Why1 == JList(<<JStr("matches methods")>>)
Pitch1 == JStr("Lead with the testbed.")

Item(idx, fit) == JDict([idx |-> idx, fit_score |-> fit, why_fit |-> Why1,
                        recommended_pitch |-> Pitch1])

ItemPool ==
    { JStr("oops"),
      Item(JInt(0), JInt(80)),
      Item(JInt(1), JInt(80)),
      JDict([idx |-> JInt(0), fit_score |-> JInt(49), why_fit |-> Why1]),
      JDict([idx |-> JInt(1), fit_score |-> JInt(120)]),
      JDict([idx |-> JInt(0), fit_score |-> JInt(-5), why_fit |-> JStr("strong fit")]),
      JDict([fit_score |-> JInt(90)]),
      Item(JInt(-1), JInt(90)),
      Item(JInt(MaxCalls), JInt(90)),
      Item(JInt(CompactLimit), JInt(90)),
      Item([t |-> "bool", b |-> TRUE], JInt(60)),
      Item(JStr("0"), JInt(90)),
      Item(JInt(0), JStr("high")),
      Item(JInt(1), JStr("70")),
      Item(JInt(1), [t |-> "float", q |-> 303]),
      JDict([idx |-> JInt(0), fit_score |-> Null, why_fit |-> Null]) }

\* the items a "ranked" list continues with after its first
MoreItems ==
    { JStr("oops"),
      Item(JInt(0), JInt(80)),
      Item(JInt(1), JInt(80)),
      JDict([idx |-> JInt(0), fit_score |-> JInt(49), why_fit |-> Why1]),
      Item(JInt(CompactLimit), JInt(90)),
      Item(JInt(0), JStr("high")) }

\* the items it goes on with after the second
LaterItems == {JStr("oops"), Item(JInt(0), JInt(80))}

\* the "ranked" lists of at most n items
RankedLists(n) ==
    {<<>>}
    \cup (IF n < 1 THEN {} ELSE {<<x>> : x \in ItemPool})
    \cup (IF n < 2 THEN {}
          ELSE {<<x, y>> \o rest : x \in ItemPool, y \in MoreItems,
                                  rest \in SeqsUpTo(LaterItems, n - 2)})

\* the JSON values an answer can hold, given its "ranked" lists
Payloads(lists) ==
    { EmptyList,
      JDict([note |-> JStr("none qualify")]),
      JDict([ranked |-> JStr("none")]) }
    \cup {JDict([ranked |-> JList(r)]) : r \in lists}

Garbage == [t |-> "garbage", s |-> "Sure! Here is the ranking"]

Fenced == {Garbage, JDict([ranked |-> JList(<<Item(JInt(0), JInt(80))>>)])}

Texts(lists) ==
    { [t |-> "raise", e |-> "503 UNAVAILABLE"], [t |-> "empty"] }
    \cup {[t |-> "text", fence |-> "none", body |-> b] : b \in Payloads(lists) \cup {Garbage}}
    \cup {[t |-> "text", fence |-> f, body |-> b] : f \in {"tagged", "bare"}, b \in Fenced}

\* the answers to the first round trip, and to the later ones (a "ranked"
\* list of at most one item)
FirstTexts == Texts(RankedLists(MaxRanked))
RetryTexts == Texts({<<>>} \cup {<<x>> : x \in ItemPool})

\* the answers to the k-th round trip
TextsAt(k) == IF k = 1 THEN FirstTexts ELSE RetryTexts

\* the long lists are ranked for the valid profiles that carry recency weights
LongProfiles == {p \in Profiles : IsDict(p) /\ "keyword_recency_weights" \in DOMAIN p.d}

\* llm_json has not been called
LlmIdle ==
    /\ i = 0
    /\ last_text = ""
    /\ last_err = ""
    /\ requests = <<>>

\* rank_calls has not come to its try: block
RankFresh ==
    /\ data = [t |-> "unset"]
    /\ failure = ""
    /\ outcome = "none"
    /\ result = <<>>

\* no invocation came before this one
NoPrev == prev = [t |-> "unset"]

\* build_prof_profile is not in use
BuildIdle ==
    /\ pubs_text = ""
    /\ built = [t |-> "unset"]
    /\ line_log = <<>>

\* fetch_calls is not in use
FetchIdle ==
    /\ use = [nsf |-> FALSE, doe |-> FALSE, grants |-> FALSE]
    /\ feeds = [nsf |-> [t |-> "off"], doe |-> [t |-> "off"], grants |-> [t |-> "off"]]
    /\ fetched = <<>>
    /\ errors = <<>>
    /\ normalized = [t |-> "unset"]

Init ==
    /\ profile \in Profiles
    /\ calls \in CallLists
    /\ attempt_id \in AttemptIds
    /\ Len(calls) > MaxCalls => profile \in LongProfiles
    /\ attempt_id = 0 \/ Len(calls) <= 1
    /\ pc = "start"
    /\ LlmIdle
    /\ RankFresh
    /\ NoPrev
    /\ BuildIdle
    /\ FetchIdle

Next ==
    \/ RankStart
    \/ \E text \in TextsAt(Len(requests) + 1) : Generate(text)
    \/ \E text \in TextsAt(Len(requests) + 1) : Repair(text)

Spec == Init /\ [][Next]_vars

(***************************************************************************)
(* services/profile.py: the recency weights                                *)
(*                                                                         *)
(* A line's weight 0.5 ** (age / half_life_years) is held as its exponent  *)
(* numerator age (an unknown year's 0.25 is 0.5 ** 2, the age of two half  *)
(* lives).  Where weights are added up they are counted in units of        *)
(* 2^-20: exactly for an age that is a multiple of the half life, to the   *)
(* nearest unit otherwise.  A normalized weight round(v / maxv, 4) is a    *)
(* count of ten-thousandths.                                               *)
(***************************************************************************)
CurrentYear == 2026
HalfLife    == 5
MinYear     == 1950
MaxYear     == 2100

WordSet == UpperSet \cup LowerSet \cup DigitSet \cup {"_"}

RECURSIVE LStrip(_)
LStrip(s) ==
    IF s # "" /\ Ch(s, 1) \in SpaceSet THEN LStrip(SubSeq(s, 2, Len(s))) ELSE s

RECURSIVE RStrip(_)
RStrip(s) ==
    IF s # "" /\ Ch(s, Len(s)) \in SpaceSet THEN RStrip(SubSeq(s, 1, Len(s) - 1)) ELSE s

\* str.strip()
Strip(s) == LStrip(RStrip(s))

\* str.splitlines(), for the line end "\n"
RECURSIVE SplitLinesFrom(_, _, _)
SplitLinesFrom(s, k, cur) ==
    IF k > Len(s) THEN (IF cur = "" THEN <<>> ELSE <<cur>>)
    ELSE IF Ch(s, k) = "\n" THEN <<cur>> \o SplitLinesFrom(s, k + 1, "")
    ELSE SplitLinesFrom(s, k + 1, cur \o Ch(s, k))

NotBlank(ln) == Strip(ln) # ""

\* [ln.strip() for ln in (pub_text or "").splitlines() if ln.strip()]
_split_pub_lines(pub_text) ==
    LET kept == SelectSeq(SplitLinesFrom(pub_text, 1, ""), NotBlank)
    IN  SubSeq([k \in 1..Len(kept) |-> Strip(kept[k])], 1, Len(kept))

\* \b(19\d{2}|20\d{2})\b matches at position p of line
YearAt(line, p) ==
    /\ p + 3 <= Len(line)
    /\ SubSeq(line, p, p + 1) \in {"19", "20"}
    /\ Ch(line, p + 2) \in DigitSet
    /\ Ch(line, p + 3) \in DigitSet
    /\ p = 1 \/ Ch(line, p - 1) \notin WordSet
    /\ p + 3 = Len(line) \/ Ch(line, p + 4) \notin WordSet

\* _extract_year_from_line without "if 1950 <= y <= 2100"
ExtractUnchecked(line) ==
    LET at == {p \in 1..Len(line) : YearAt(line, p)} IN
    IF at = {} THEN Null
    ELSE JInt(DigitsVal(SubSeq(line, CHOOSE q \in at : \A r \in at : q <= r,
                               (CHOOSE q \in at : \A r \in at : q <= r) + 3), 0))

\* the year of the leftmost match if it is within MinYear..MaxYear, else None
_extract_year_from_line(line) ==
    LET at == {p \in 1..Len(line) : YearAt(line, p)} IN
    IF at = {} THEN Null
    ELSE LET p == CHOOSE q \in at : \A r \in at : q <= r
             y == DigitsVal(SubSeq(line, p, p + 3), 0)
         IN  IF MinYear <= y /\ y <= MaxYear THEN JInt(y) ELSE Null

\* the age n of the weight 0.5 ** (n / HalfLife)
_year_weight(year, current_year) ==
    IF year.t = "null" THEN 2 * HalfLife
    ELSE Max(0, current_year - year.n)

\* 2^20 units make 1.0
WeightOne == 1048576

\* 0.5 ** (r / 5) for r = 0 .. 4, in units
FifthRoots == <<1048576, 912838, 794672, 691802, 602249>>

\* the weight of age n, in units
Units(n) ==
    (FifthRoots[(n % HalfLife) + 1] + (2 ^ (n \div HalfLife)) \div 2)
        \div (2 ^ (n \div HalfLife))

\* the turns of "for line in lines": the line, y and w of each
LineLog(pub_text, current_year) ==
    LET lines == _split_pub_lines(pub_text)
    IN  SubSeq([k \in 1..Len(lines) |->
                  [line |-> lines[k],
                   y    |-> _extract_year_from_line(lines[k]),
                   w    |-> _year_weight(_extract_year_from_line(lines[k]), current_year)]],
               1, Len(lines))

\* StrippedKeywords without the "if str(k).strip()": a blank keyword stays
UnfilteredKeywords(methods_keywords) ==
    SubSeq([k \in 1..Len(methods_keywords) |-> Strip(methods_keywords[k])],
           1, Len(methods_keywords))

\* kws = [k.strip() for k in (methods_keywords or []) if str(k).strip()]
StrippedKeywords(methods_keywords) ==
    LET kept == SelectSeq(methods_keywords, NotBlank)
    IN  SubSeq([k \in 1..Len(kept) |-> Strip(kept[k])], 1, Len(kept))

\* how often the inner loop adds w to scores[kw] for a line
Hits(kw, kws, line_l) ==
    Cardinality({j \in 1..Len(kws) : kws[j] = kw /\ Contains(line_l, Lower(kws[j]))})

\* scores[kw] after the turns k.. of the outer loop
RECURSIVE ScoreFrom(_, _, _, _)
ScoreFrom(kw, kws, log, k) ==
    IF k > Len(log) THEN 0
    ELSE Hits(kw, kws, Lower(log[k].line)) * Units(log[k].w) + ScoreFrom(kw, kws, log, k + 1)

\* scores: a defaultdict holds the keys that were added to
ScoresOf(kws, log) ==
    [kw \in {kws[j] : j \in {h \in 1..Len(kws) :
                \E k \in 1..Len(log) : Contains(Lower(log[k].line), Lower(kws[h]))}}
        |-> ScoreFrom(kw, kws, log, 1)] @@ <<>>

\* max(scores.values()) or 1.0
MaxOr1(scores) ==
    LET m == CHOOSE v \in {scores[k] : k \in DOMAIN scores} :
                 \A k \in DOMAIN scores : scores[k] <= v
    IN  IF m = 0 THEN WeightOne ELSE m

\* q + r / m to the nearest integer, ties to even
RoundRem(q, r, m) ==
    IF 2 * r < m THEN q
    ELSE IF 2 * r > m THEN q + 1
    ELSE IF q % 2 = 0 THEN q ELSE q + 1

\* round(v / m, 4) in ten-thousandths, by long division
RoundRatio4(v, m) ==
    RoundRem(((v * 100) \div m) * 100 + (((v * 100) % m) * 100) \div m,
             (((v * 100) % m) * 100) % m,
             m)

\* {k: round(v / maxv, 4) for k, v in scores.items()}, given maxv
Rescaled(scores, maxv) == [k \in DOMAIN scores |-> RoundRatio4(scores[k], maxv)]

\* the mapping returned, in ten-thousandths
Normalize(scores) ==
    IF DOMAIN scores = {} THEN <<>> ELSE Rescaled(scores, MaxOr1(scores))

_build_keyword_recency_weights(pub_text, methods_keywords, current_year) ==
    Normalize(ScoresOf(StrippedKeywords(methods_keywords), LineLog(pub_text, current_year)))

(***************************************************************************)
(* services/profile.py: build_prof_profile                                 *)
(*                                                                         *)
(* pubs_text is the publication text passed in.  data holds what llm_json  *)
(* returned and built what build_prof_profile came to: the profile it      *)
(* returned, or [t |-> "raised", e |-> _] for an exception that left it.   *)
(* The weights under "keyword_recency_weights" are in ten-thousandths.     *)
(***************************************************************************)
\* "if not isinstance(profile, dict): profile = {}"
EnsureDict(d) == IF IsDict(d) THEN d.d ELSE <<>>

\* methods = profile.get("methods_keywords", []), [] unless it is a list
MethodsOf(p) ==
    IF Get(p, "methods_keywords", EmptyList).t = "list"
    THEN Get(p, "methods_keywords", EmptyList).l
    ELSE <<>>

\* str(k).strip() is non-empty for every value that is no string, and
\* k.strip() then raises AttributeError
KeywordRaises(methods) == \E k \in 1..Len(methods) : methods[k].t # "str"

\* the keywords as plain strings
PlainKeywords(methods) ==
    SubSeq([k \in 1..Len(methods) |-> methods[k].s], 1, Len(methods))

\* build_prof_profile from the value llm_json returned to its own return
ProfileFrom(p, pub_text) ==
    IF KeywordRaises(MethodsOf(p))
    THEN [t |-> "raised", e |-> "AttributeError"]
    ELSE [t |-> "dict",
          d |-> ("keyword_recency_weights" :>
                    Weights(_build_keyword_recency_weights(
                                pub_text, PlainKeywords(MethodsOf(p)), CurrentYear)))
                @@ p]

BuildReturnFrom(d) ==
    /\ data' = d
    /\ built' = ProfileFrom(EnsureDict(d), pubs_text)
    /\ line_log' = IF KeywordRaises(MethodsOf(EnsureDict(d))) THEN <<>>
                   ELSE LineLog(pubs_text, CurrentYear)
    /\ pc' = "done"

\* llm_json raised: nothing in build_prof_profile catches it
BuildExceptFrom(e) ==
    /\ built' = [t |-> "raised", e |-> e]
    /\ pc' = "done"
    /\ UNCHANGED <<data, line_log>>

\* one llm_text(json_prompt) round trip of the llm_json call at line 35 and
\* what follows it
BuildGenerate(text) ==
    /\ pc = "generate"
    /\ requests' = Append(requests, [op |-> "generate", temperature |-> GenTemperature])
    /\ IF text.t = "raise"
       THEN BuildExceptFrom(text.e) /\ UNCHANGED <<i, last_text, last_err>>
       ELSE IF text.t = "empty"
       THEN /\ last_text' = ""
            /\ last_err' = "Empty model output"
            /\ IF i < MaxRetries
               THEN i' = i + 1 /\ UNCHANGED <<pc, data, built, line_log>>
               ELSE i' = i /\ BuildExceptFrom(ParseFailure("Empty model output", ""))
       ELSE IF GenParses(text)
       THEN BuildReturnFrom(text.body) /\ UNCHANGED <<i, last_text, last_err>>
       ELSE /\ last_text' = text.body.s
            /\ last_err' = "JSONDecodeError"
            /\ i' = i
            /\ IF MayRepair(i)
               THEN pc' = "repair" /\ UNCHANGED <<data, built, line_log>>
               ELSE BuildExceptFrom(ParseFailure("JSONDecodeError", text.body.s))
    /\ UNCHANGED <<profile, calls, attempt_id, failure, outcome, result>>
    /\ UNCHANGED <<prev, pubs_text, fetchVars>>

\* one llm_text(repair_prompt, temperature=0.0) round trip and what follows it
BuildRepair(text) ==
    /\ pc = "repair"
    /\ requests' = Append(requests, [op |-> "repair", temperature |-> RepairTemperature])
    /\ IF text.t = "raise"
       THEN BuildExceptFrom(text.e) /\ i' = i
       ELSE IF RepairParses(text)
       THEN BuildReturnFrom(text.body) /\ i' = i
       ELSE IF i < MaxRetries
       THEN /\ i' = i + 1
            /\ pc' = "generate"
            /\ UNCHANGED <<data, built, line_log>>
       ELSE i' = i /\ BuildExceptFrom(ParseFailure(last_err, last_text))
    /\ UNCHANGED <<profile, calls, attempt_id, failure, outcome, result>>
    /\ UNCHANGED <<last_text, last_err, prev, pubs_text, fetchVars>>

(***************************************************************************)
(* The publication texts and the service's answers to build_prof_profile   *)
(***************************************************************************)
MaxLines == 2   \* the most lines of a publication text

\* the lines a publication text is made of
PubLines ==
    { "control 2026",
      "Robotics grid (2021).",
      "  grid control 2023",
      "x12019 control",
      "1949 2020 robotics",
      "ROBOTICS 2031",
      "grid",
      "   " }

RECURSIVE JoinLines(_)
JoinLines(ls) ==
    IF ls = <<>> THEN ""
    ELSE IF Len(ls) = 1 THEN ls[1]
    ELSE ls[1] \o "\n" \o JoinLines(Tail(ls))

PubTexts == {JoinLines(ls) : ls \in SeqsUpTo(PubLines, MaxLines)}

\* the values "methods_keywords" holds when it is a list
KeywordLists ==
    { <<>>,
      <<JStr("robotics"), JStr("control")>>,
      <<JStr("Robotics"), JStr("robotics"), JStr(" control ")>>,
      <<JStr("grid"), JStr("grid"), JStr("control")>>,
      <<JStr("robotics"), JStr("control"), JStr("grid")>>,
      <<JStr(""), JStr("  ")>>,
      <<JStr("quantum"), JStr("")>>,
      <<JStr("control"), JInt(5)>> }

\* the JSON values an answer to the profile prompt can hold
ProfilePayloads(lists) ==
    { EmptyList,
      JDict([themes |-> JList(<<JStr("autonomy")>>)]),
      JDict([methods_keywords |-> JStr("robotics")]) }
    \cup {JDict([themes |-> JList(<<JStr("autonomy")>>),
                 methods_keywords |-> JList(ks)]) : ks \in lists}

ProfileTexts(lists) ==
    { [t |-> "raise", e |-> "503 UNAVAILABLE"], [t |-> "empty"] }
    \cup {[t |-> "text", fence |-> "none", body |-> b] :
              b \in ProfilePayloads(lists) \cup {Garbage}}
    \cup {[t |-> "text", fence |-> f, body |-> b] :
              f \in {"tagged", "bare"},
              b \in {Garbage, JDict([methods_keywords |-> JList(<<JStr("grid")>>)])}}

\* the answers to the k-th round trip
ProfileTextsAt(k) ==
    IF k = 1 THEN ProfileTexts(KeywordLists)
    ELSE ProfileTexts({<<JStr("robotics"), JStr("control")>>})

\* rank_calls is not in use
RankIdle ==
    /\ profile = EmptyDict
    /\ calls = <<>>
    /\ attempt_id = 0
    /\ RankFresh

InitProfile ==
    /\ pubs_text \in PubTexts
    /\ built = [t |-> "unset"]
    /\ line_log = <<>>
    /\ pc = "generate"
    /\ LlmIdle
    /\ RankIdle
    /\ NoPrev
    /\ FetchIdle

NextProfile ==
    \/ \E text \in ProfileTextsAt(Len(requests) + 1) : BuildGenerate(text)
    \/ \E text \in ProfileTextsAt(Len(requests) + 1) : BuildRepair(text)

SpecProfile == InitProfile /\ [][NextProfile]_vars

(***************************************************************************)
(* app.py: the "Re-rank" button                                            *)
(*                                                                         *)
(* A second rank_calls with the profile and the listings of the session    *)
(* and the next attempt_id.  prev keeps what the first invocation came to. *)
(***************************************************************************)
Rerank ==
    /\ pc = "done"
    /\ outcome = "returned"
    /\ NoPrev
    /\ ~(Falsy(profile) \/ calls = <<>>)
    /\ prev' = [t |-> "ranked", ranked_calls |-> result, failure |-> failure,
                attempt_id |-> attempt_id]
    /\ attempt_id' = attempt_id + 1
    /\ pc' = "start"
    /\ i' = 0
    /\ last_text' = ""
    /\ last_err' = ""
    /\ requests' = <<>>
    /\ data' = [t |-> "unset"]
    /\ failure' = ""
    /\ outcome' = "none"
    /\ result' = <<>>
    /\ UNCHANGED <<profile, calls, buildVars, fetchVars>>

\* the sessions that are ranked twice: a profile the prompt can be built
\* from and short listing lists
RerankProfiles == {p \in Profiles : IsDict(p) /\ ~PromptRaises(p.d)}

InitRerank ==
    /\ profile \in RerankProfiles
    /\ calls \in SeqsUpTo(CallPool, MaxCalls)
    /\ attempt_id = 0
    /\ pc = "start"
    /\ LlmIdle
    /\ RankFresh
    /\ NoPrev
    /\ BuildIdle
    /\ FetchIdle

\* the answers of the service in these sessions: one of each way to fail,
\* and one that merges
RerankTexts ==
    { [t |-> "raise", e |-> "503 UNAVAILABLE"],
      [t |-> "empty"],
      [t |-> "text", fence |-> "none", body |-> Garbage],
      [t |-> "text", fence |-> "none", body |-> JDict([ranked |-> JStr("none")])],
      [t |-> "text", fence |-> "none", body |-> JDict([ranked |-> EmptyList])],
      [t |-> "text", fence |-> "none",
       body |-> JDict([ranked |-> JList(<<Item(JInt(0), JInt(80))>>)])] }

NextRerank ==
    \/ RankStart
    \/ \E text \in RerankTexts : Generate(text)
    \/ \E text \in RerankTexts : Repair(text)
    \/ Rerank

SpecRerank == InitRerank /\ [][NextRerank]_vars

(***************************************************************************)
(* services/calls.py: fetch_calls                                          *)
(*                                                                         *)
(* A record is a dict from field names to JSON values.  What a source      *)
(* gives is [t |-> "fail", e |-> _] when fetching or parsing it raises,    *)
(* [t |-> "entries", l |-> _] for the entries of a parsed RSS feed and     *)
(* [t |-> "json", data |-> _] for the body of a Grants.gov response;       *)
(* [t |-> "off"] stands for a source that was not fetched.                 *)
(***************************************************************************)
EmptyStr == [t |-> "str", s |-> ""]

\* c.get(k1) or c.get(k2) or ... or last
RECURSIVE OrChain(_, _, _)
OrChain(c, keys, last) ==
    IF keys = <<>> THEN last
    ELSE IF ~Falsy(Get(c, Head(keys), Null)) THEN c[Head(keys)]
    ELSE OrChain(c, Tail(keys), last)

\* _normalize_call without the closing or "": the last .get decides
NormalizeNoDefault(c) ==
    [agency    |-> OrChain(c, <<"agency">>, Get(c, "source", Null)),
     title     |-> OrChain(c, <<"title", "opportunityTitle">>, Get(c, "name", Null)),
     deadline  |-> OrChain(c, <<"deadline", "closeDate">>, Get(c, "dueDate", Null)),
     published |-> OrChain(c, <<"published", "postDate">>, Get(c, "publishDate", Null)),
     link      |-> OrChain(c, <<"link", "url", "opportunityURL">>, Get(c, "href", Null)),
     summary   |-> OrChain(c, <<"summary", "synopsis">>, Get(c, "description", Null))]

\* agency_default is ""
_normalize_call(c) ==
    [agency    |-> OrChain(c, <<"agency", "source">>, EmptyStr),
     title     |-> OrChain(c, <<"title", "opportunityTitle", "name">>, EmptyStr),
     deadline  |-> OrChain(c, <<"deadline", "closeDate", "dueDate">>, EmptyStr),
     published |-> OrChain(c, <<"published", "postDate", "publishDate">>, EmptyStr),
     link      |-> OrChain(c, <<"link", "url", "opportunityURL", "href">>, EmptyStr),
     summary   |-> OrChain(c, <<"summary", "synopsis", "description">>, EmptyStr)]

\* the record _fetch_rss makes of a feed entry e for an agency
RssRecord(e, agency) ==
    [agency    |-> [t |-> "str", s |-> agency],
     title     |-> OrChain(e, <<"title">>, EmptyStr),
     link      |-> OrChain(e, <<"link">>, EmptyStr),
     published |-> OrChain(e, <<"published", "updated">>, EmptyStr),
     deadline  |-> EmptyStr,
     summary   |-> OrChain(e, <<"summary", "description">>, EmptyStr),
     source    |-> [t |-> "str", s |-> Lower(agency) \o "_rss"]]

\* _fetch_rss: [t |-> "raise", e] or [t |-> "ok", out]
_fetch_rss(feed, agency) ==
    IF feed.t = "fail" THEN [t |-> "raise", e |-> feed.e]
    ELSE [t |-> "ok",
          out |-> SubSeq([k \in 1..Len(feed.l) |-> RssRecord(feed.l[k], agency)],
                         1, Len(feed.l))]

\* the record _fetch_grants_gov makes of an item that is a dict
GrantsRecord(it) ==
    [agency    |-> Get(it, "agency", [t |-> "str", s |-> "Grants.gov"]),
     title     |-> Get(it, "title", EmptyStr),
     link      |-> Get(it, "opportunityNumber", EmptyStr),
     published |-> OrChain(it, <<"postDate">>, EmptyStr),
     summary   |-> OrChain(it, <<"description">>, EmptyStr),
     deadline  |-> OrChain(it, <<"closeDate">>, EmptyStr),
     source    |-> [t |-> "str", s |-> "grants.gov"]]

\* items = data.get("opportunities") or data.get("data") or []
ItemsOf(body) == OrChain(body, <<"opportunities", "data">>, EmptyList)

\* "for it in items" over a list; a str or a dict gives no dict to keep
RecordsOf(items) ==
    IF items.t # "list" THEN <<>>
    ELSE LET kept == SelectSeq(items.l, IsDict)
         IN  SubSeq([k \in 1..Len(kept) |-> GrantsRecord(kept[k].d)], 1, Len(kept))

\* _fetch_grants_gov: [t |-> "raise", e] or [t |-> "ok", out]
_fetch_grants_gov(resp) ==
    IF resp.t = "fail" THEN [t |-> "raise", e |-> resp.e]
    ELSE IF ~IsDict(resp.data) THEN [t |-> "raise", e |-> "AttributeError"]
    ELSE IF ItemsOf(resp.data.d).t \in {"int", "float", "bool"}
    THEN [t |-> "raise", e |-> "TypeError"]
    ELSE [t |-> "ok", out |-> RecordsOf(ItemsOf(resp.data.d))]

\* one "if use_...: try: ... except" block of fetch_calls, for what the
\* fetch came to
TryFetch(got, label) ==
    /\ fetched' = IF got.t = "ok" THEN fetched \o got.out ELSE fetched
    /\ errors' = IF got.t = "ok" THEN errors ELSE Append(errors, label \o " failed: " \o got.e)


\* lines 104-109
FetchNsf(feed) ==
    /\ pc = "nsf"
    /\ IF use.nsf
       THEN /\ TryFetch(_fetch_rss(feed, "NSF"), "NSF RSS")
            /\ feeds' = [feeds EXCEPT !.nsf = feed]
       ELSE UNCHANGED <<fetched, errors, feeds>>
    /\ pc' = "doe"
    /\ UNCHANGED <<rankVars, i, last_text, last_err, requests, prev, buildVars, use, normalized>>

\* lines 111-116
FetchDoe(feed) ==
    /\ pc = "doe"
    /\ IF use.doe
       THEN /\ TryFetch(_fetch_rss(feed, "DOE"), "DOE RSS")
            /\ feeds' = [feeds EXCEPT !.doe = feed]
       ELSE UNCHANGED <<fetched, errors, feeds>>
    /\ pc' = "grants"
    /\ UNCHANGED <<rankVars, i, last_text, last_err, requests, prev, buildVars, use, normalized>>

\* lines 118-124
FetchGrants(resp) ==
    /\ pc = "grants"
    /\ IF use.grants
       THEN /\ TryFetch(_fetch_grants_gov(resp), "Grants.gov")
            /\ feeds' = [feeds EXCEPT !.grants = resp]
       ELSE UNCHANGED <<fetched, errors, feeds>>
    /\ pc' = "normalize"
    /\ UNCHANGED <<rankVars, i, last_text, last_err, requests, prev, buildVars, use, normalized>>

\* x.get("title") or x.get("link")
HasTitleOrLink(x) == ~Falsy(x.title) \/ ~Falsy(x.link)

\* the record that stands in for an empty result
Placeholder ==
    [agency    |-> [t |-> "str", s |-> "NSF"],
     title     |-> [t |-> "str", s |-> "DEMO: Placeholder call (check RSS/API connectivity)"],
     deadline  |-> EmptyStr,
     published |-> EmptyStr,
     link      |-> [t |-> "str", s |-> "https://www.nsf.gov/funding/"],
     summary   |-> [t |-> "str",
                    s |-> "This is a fallback item so the rest of the pipeline can be tested."],
     source    |-> [t |-> "str", s |-> "fallback"]]

\* [_normalize_call(item) for the items of calls], then the filter
NormalizedOf(cs) ==
    SelectSeq(SubSeq([k \in 1..Len(cs) |-> _normalize_call(cs[k])], 1, Len(cs)),
              HasTitleOrLink)

\* lines 126-144
NormalizeAndReturn ==
    /\ pc = "normalize"
    /\ IF NormalizedOf(fetched) = <<>>
       THEN /\ errors' = Append(errors,
                   "DEBUG: No calls found from sources. Using fallback demo call.")
            /\ normalized' = [t |-> "list", l |-> <<Placeholder>>]
       ELSE /\ normalized' = [t |-> "list", l |-> NormalizedOf(fetched)]
            /\ UNCHANGED errors
    /\ pc' = "done"
    /\ UNCHANGED <<rankVars, i, last_text, last_err, requests, prev, buildVars,
                   use, feeds, fetched>>

(***************************************************************************)
(* What the sources give                                                   *)
(***************************************************************************)
MaxEntries == 2   \* the most entries of the NSF feed and of the Grants.gov answer

\* the entries of an RSS feed, by the attributes feedparser gives them
RssEntries ==
    { [title |-> [t |-> "str", s |-> "Robotics Control Grant"],
       link |-> [t |-> "str", s |-> "https://a"],
       summary |-> [t |-> "str", s |-> "advanced control systems"]],
      [title |-> Null, link |-> Null, updated |-> [t |-> "str", s |-> "2026-01-05"]],
      [title |-> EmptyStr, link |-> [t |-> "str", s |-> "https://b"],
       description |-> [t |-> "str", s |-> "grid"]] }

NsfFeeds ==
    {[t |-> "fail", e |-> "timed out"]}
    \cup {[t |-> "entries", l |-> l] : l \in SeqsUpTo(RssEntries, MaxEntries)}

DoeFeeds ==
    { [t |-> "fail", e |-> "RSS parse error: not well-formed"],
      [t |-> "entries", l |-> <<>>],
      [t |-> "entries", l |-> <<[link |-> [t |-> "str", s |-> "https://c"]]>>],
      [t |-> "entries", l |-> <<[summary |-> [t |-> "str", s |-> "no title, no link"]]>>] }

\* the items of a Grants.gov answer
GrantsItems ==
    { [t |-> "dict", d |-> [title |-> [t |-> "str", s |-> "Grid AI"],
                            opportunityNumber |-> [t |-> "str", s |-> "DE-FOA-1"]]],
      [t |-> "dict", d |-> [agency |-> Null, title |-> Null, opportunityNumber |-> Null,
                            description |-> Null]],
      [t |-> "str", s |-> "n/a"] }

GrantsAnswers ==
    { [t |-> "fail", e |-> "503 Server Error"],
      [t |-> "json", data |-> EmptyList],
      [t |-> "json", data |-> [t |-> "dict", d |-> [message |-> [t |-> "str", s |-> "ok"]]]],
      [t |-> "json", data |-> [t |-> "dict", d |-> [opportunities |-> [t |-> "int", n |-> 3]]]],
      [t |-> "json", data |-> [t |-> "dict", d |->
          [opportunities |-> Null,
           data |-> [t |-> "list", l |-> <<[t |-> "dict", d |-> [title |-> [t |-> "int", n |-> 7]]]>>]]]] }
    \cup {[t |-> "json", data |-> [t |-> "dict", d |-> [opportunities |-> [t |-> "list", l |-> l]]]] :
              l \in SeqsUpTo(GrantsItems, MaxEntries)}

InitCalls ==
    /\ use \in [{"nsf", "doe", "grants"} -> BOOLEAN]
    /\ feeds = [nsf |-> [t |-> "off"], doe |-> [t |-> "off"], grants |-> [t |-> "off"]]
    /\ fetched = <<>>
    /\ errors = <<>>
    /\ normalized = [t |-> "unset"]
    /\ pc = "nsf"
    /\ LlmIdle
    /\ RankIdle
    /\ NoPrev
    /\ BuildIdle

NextCalls ==
    \/ \E feed \in NsfFeeds : FetchNsf(feed)
    \/ \E feed \in DoeFeeds : FetchDoe(feed)
    \/ \E resp \in GrantsAnswers : FetchGrants(resp)
    \/ NormalizeAndReturn

SpecCalls == InitCalls /\ [][NextCalls]_vars

(***************************************************************************)
(* Vocabulary of the properties                                            *)
(***************************************************************************)
Done == pc = "done"

\* the listings rank_calls works on
Listings == DictsOf(calls)

ValidInputs == ~EarlyReturn(profile, calls)

WellTyped == IsDict(profile) /\ ~PromptRaises(profile.d)

\* the except: branch ran
FellBack == Done /\ failure # ""

\* the try: block returned
Merged == Done /\ outcome = "returned" /\ data.t # "unset" /\ failure = ""

OverlayKeys == {"fit_score", "why_fit", "recommended_pitch", "rank_mode"}

\* entry is a copy of listing call with nothing but the ranking keys set
IsCopyOf(entry, call) ==
    /\ DOMAIN entry = DOMAIN call \cup OverlayKeys
    /\ \A k \in DOMAIN call \ OverlayKeys : entry[k] = call[k]

Copies(call) == Cardinality({k \in 1..Len(result) : IsCopyOf(result[k], call)})

Occurrences(call) == Cardinality({k \in 1..Len(Listings) : Listings[k] = call})

ListingSet == {Listings[k] : k \in 1..Len(Listings)}

\* the "ranked" list of the answer, <<>> when there is none
RankedOf(d) ==
    IF IsDict(d) /\ Get(d.d, "ranked", Null).t = "list" THEN d.d.ranked.l ELSE <<>>

HasRankedList(d) == IsDict(d) /\ Get(d.d, "ranked", Null).t = "list"

\* the entry of the answer passes the merge loop's two checks
Survives(item) == IsDict(item) /\ ValidIdx(Get(item.d, "idx", Null), Listings)

Count(op) == Cardinality({k \in 1..Len(requests) : requests[k].op = op})

(***************************************************************************)
(* C1.  Whenever rank_calls takes the fallback path for a non-empty        *)
(* profile and N dict listings, it returns exactly N entries, one per      *)
(* input listing (also those beyond the first CompactLimit), each with     *)
(* rank_mode "fallback": none is dropped, no threshold is applied.         *)
(***************************************************************************)
C1_FallbackKeepsEveryListing ==
    FellBack =>
        /\ Len(result) = Len(Listings)
        /\ \A k \in 1..Len(result) : result[k].rank_mode = "fallback"
        /\ \A c \in ListingSet : Copies(c) = Occurrences(c)

\* a fallback over more than CompactLimit listings, with an entry under the
\* service path's threshold
C1_Witness ==
    /\ FellBack
    /\ Len(Listings) > CompactLimit
    /\ Len(result) = Len(Listings)
    /\ \E k \in 1..Len(result) : result[k].fit_score < Threshold

(***************************************************************************)
(* C2.  On the service path every returned entry is a copy of the input    *)
(* listing at an in-range index named by an entry of the answer, with      *)
(* only the four ranking keys set, and no input listing is returned more   *)
(* often than it occurs in the input, also when the answer repeats an idx. *)
(***************************************************************************)
NamedBy(entry) ==
    \E r \in 1..Len(RankedOf(data)) :
        /\ Survives(RankedOf(data)[r])
        /\ IsCopyOf(entry, Listings[IndexOf(RankedOf(data)[r].d.idx) + 1])

C2_ServiceOutputIsSubsequence ==
    Merged =>
        /\ \A k \in 1..Len(result) : result[k].rank_mode = "llm" /\ NamedBy(result[k])
        /\ \A c \in ListingSet : Copies(c) <= Occurrences(c)

(***************************************************************************)
(* C3.  Every returned sequence is non-increasing in fit_score, and two    *)
(* entries of equal fit_score stand in the order of their listings in the  *)
(* input list (not in the order of the service's answer).                  *)
(***************************************************************************)
NonIncreasing ==
    \A p \in 1..Len(result) : \A q \in (p + 1)..Len(result) :
        result[p].fit_score >= result[q].fit_score

\* result[p] and result[q] are copies of listings ls[a], ls[b] with a <= b (a
\* listing returned twice counts as in order)
InInputOrder(ls, p, q) ==
    \E a \in 1..Len(ls) :
        /\ IsCopyOf(result[p], ls[a])
        /\ \E b \in a..Len(ls) : IsCopyOf(result[q], ls[b])

\* result[p] and result[q] were merged from entries u < v of the answer
InAnswerOrder(ls, p, q) ==
    \E u \in 1..Len(RankedOf(data)) :
        /\ MergeItem(profile.d, ls, RankedOf(data)[u]) = [t |-> "ok", merged |-> result[p]]
        /\ \E v \in (u + 1)..Len(RankedOf(data)) :
              MergeItem(profile.d, ls, RankedOf(data)[v]) = [t |-> "ok", merged |-> result[q]]

\* every two entries of equal score stand in the order InOrder, ls being the
\* listings rank_calls works on
TiesOrderedBy(InOrder(_, _, _), ls) ==
    \A p \in 1..Len(result) : \A q \in (p + 1)..Len(result) :
        result[p].fit_score = result[q].fit_score => InOrder(ls, p, q)

\* the claim as stated: input order on both paths
C3_TiesInInputOrder ==
    Done => NonIncreasing /\ TiesOrderedBy(InInputOrder, Listings)

\* amended: input order on the fallback path, the answer's order on the
\* service path
C3_TiesInMergeOrder ==
    /\ Done => NonIncreasing
    /\ FellBack => TiesOrderedBy(InInputOrder, Listings)
    /\ Merged => TiesOrderedBy(InAnswerOrder, Listings)

\* a service answer that names a later listing first, with the same score
C3_Witness ==
    /\ Merged
    /\ Len(result) >= 2
    /\ result[1].fit_score = result[2].fit_score
    /\ ~InInputOrder(Listings, 1, 2)

(***************************************************************************)
(* C4.  When the answer for a non-empty batch parses to {"ranked": []},    *)
(* rank_calls returns the empty sequence and does not fall back.           *)
(***************************************************************************)
C4_EmptyRankedIsEmptyResult ==
    (Done /\ ValidInputs /\ HasRankedList(data) /\ RankedOf(data) = <<>>) =>
        result = <<>> /\ failure = ""

(***************************************************************************)
(* C5.  When the answer has a list under "ranked" of which no entry        *)
(* survives validation, the batch counts as a service failure: the result  *)
(* is the fallback scoring of every original listing.                      *)
(***************************************************************************)
NoneSurvives == \A r \in 1..Len(RankedOf(data)) : ~Survives(RankedOf(data)[r])

\* without the prefixed note
Unnoted(entry) ==
    IF entry.why_fit.l # <<>> /\ Head(entry.why_fit.l).t = "failed"
    THEN [entry EXCEPT !.why_fit = [t |-> "list", l |-> Tail(entry.why_fit.l)]]
    ELSE entry

\* result holds, for each listing, its fallback scoring, as often as the
\* listing occurs
IsFallbackOfAll ==
    /\ Len(result) = Len(Listings)
    /\ \A c \in ListingSet :
          LET scored == _fallback_score(profile.d, c)
          IN  Cardinality({k \in 1..Len(result) : Unnoted(result[k]) = scored})
                = Occurrences(c)

C5_NothingMergedFallsBack ==
    (Done /\ ValidInputs /\ WellTyped /\ HasRankedList(data) /\ NoneSurvives) =>
        /\ failure = "LLM ranked list could not be merged."
        /\ IsFallbackOfAll

\* an answer with entries, none of them usable
C5_Witness ==
    /\ Done /\ HasRankedList(data) /\ NoneSurvives
    /\ Len(RankedOf(data)) = MaxRanked
    /\ \E r \in 1..Len(RankedOf(data)) : IsDict(RankedOf(data)[r])
    /\ Len(result) = Len(Listings)
    /\ result[1].rank_mode = "fallback"

(***************************************************************************)
(* C6.  For a well-typed non-empty profile and non-empty listings, a       *)
(* failure of the service path (the structured request raises, the parsed  *)
(* value is no object, "ranked" is no list) makes rank_calls return, never *)
(* raise: the result is the fallback scoring of all listings, with the     *)
(* failure reason prefixed to why_fit of the first entry and of no other.  *)
(***************************************************************************)
\* llm_json raised, or returned something without a "ranked" list
RequestFailed == data.t = "unset" \/ ~HasRankedList(data)

NotedAt(k) == \E n \in 1..Len(result[k].why_fit.l) : result[k].why_fit.l[n].t = "failed"

C6_ServiceFailureFallsBack ==
    (Done /\ ValidInputs /\ WellTyped) =>
        /\ outcome = "returned"
        /\ RequestFailed =>
              /\ failure # ""
              /\ IsFallbackOfAll
              /\ Head(result[1].why_fit.l) = FailedNote(failure)
              /\ ~\E n \in 2..Len(result[1].why_fit.l) : result[1].why_fit.l[n].t = "failed"
              /\ \A k \in 2..Len(result) : ~NotedAt(k)

\* the structured request gave up after its last attempt, over two listings
C6_Witness ==
    /\ Done /\ data.t = "unset"
    /\ failure = ParseFailure("JSONDecodeError", Garbage.s)
    /\ Len(result) = 2
    /\ Head(result[1].why_fit.l) = FailedNote(failure)

(***************************************************************************)
(* C7.  Every returned entry, on either path, for any fit_score of the     *)
(* service (negative, above 100, missing, null) and any recency weights,   *)
(* has an integer fit_score with 0 <= fit_score <= 100.                    *)
(***************************************************************************)
C7_ScoreInRange ==
    \A k \in 1..Len(result) : result[k].fit_score \in 0..100

\* the service scored a listing 120, and it is returned with 100
C7_Witness ==
    /\ Merged
    /\ \E r \in 1..Len(RankedOf(data)) :
          /\ Survives(RankedOf(data)[r])
          /\ RankedOf(data)[r].d.fit_score = JInt(120)
    /\ \E k \in 1..Len(result) : result[k].fit_score = 100

(***************************************************************************)
(* C8.  Every returned entry with rank_mode "llm" has a final fit_score    *)
(* (service score plus recency bonus, clamped) of at least 50: a merged    *)
(* entry below 50 is removed although the service returned it.             *)
(***************************************************************************)
C8_ServiceEntriesAtLeast50 ==
    \A k \in 1..Len(result) : result[k].rank_mode = "llm" => result[k].fit_score >= 50

\* an entry of the answer merged to a score under 50 and is not returned
C8_Witness ==
    /\ Merged
    /\ Len(result) >= 1
    /\ \E r \in 1..Len(RankedOf(data)) :
          LET m == MergeItem(profile.d, Listings, RankedOf(data)[r])
          IN  /\ m.t = "ok"
              /\ m.merged.fit_score < 50
              /\ \A k \in 1..Len(result) : result[k] # m.merged

(***************************************************************************)
(* C9.  If the profile is empty or no mapping, or the listing list is      *)
(* empty or holds no mapping, rank_calls returns the empty sequence at     *)
(* once: no request goes to the service, no fallback scoring runs.         *)
(***************************************************************************)
NoProfile == ~IsDict(profile) \/ DOMAIN profile.d = {}

NoListing == \A k \in 1..Len(calls) : ~IsDict(calls[k])

C9_EmptyInputReturnsAtOnce ==
    (NoProfile \/ NoListing) =>
        /\ requests = <<>>
        /\ result = <<>>
        /\ failure = ""
        /\ pc \in {"start", "done"}
        /\ Done => outcome = "returned"

\* returned for a valid profile and a list of non-mapping entries only
C9_Witness ==
    /\ Done /\ outcome = "returned"
    /\ IsDict(profile) /\ DOMAIN profile.d # {}
    /\ calls # <<>> /\ NoListing
    /\ requests = <<>> /\ result = <<>>

(***************************************************************************)
(* C10.  Within one structured request, when the output stays unparseable  *)
(* after fence stripping, exactly one repair round trip is issued, at      *)
(* temperature 0; if the repaired output is unparseable too, the request   *)
(* ends with a failure raised to the caller, and no further generation or  *)
(* repair call goes to the service.                                        *)
(***************************************************************************)
\* the claim as stated: no round trip follows a repair
C10_NothingAfterRepair ==
    \A k \in 1..Len(requests) : requests[k].op = "repair" => k = Len(requests)

\* amended: up to MaxRetries + 1 generations; each but the last, when its
\* non-empty output does not parse, is followed by one repair at temperature
\* 0, and a failed repair by the next generation; the failure is raised after
\* the last generation, and nothing follows it
C10_RepairPerAttempt ==
    /\ Count("generate") <= MaxRetries + 1
    /\ Count("repair") <= MaxRetries
    /\ \A k \in 1..Len(requests) :
          /\ requests[k].op = "repair" =>
                /\ requests[k].temperature = 0
                /\ k > 1 /\ requests[k - 1].op = "generate"
          /\ requests[k].op = "generate" => requests[k].temperature = 3
    /\ pc = "repair" =>
          /\ requests[Len(requests)].op = "generate"
          /\ last_err = "JSONDecodeError"
          /\ Count("generate") <= MaxRetries
    /\ pc = "generate" /\ requests # <<>> /\ last_err = "JSONDecodeError" =>
          requests[Len(requests)].op = "repair"
    /\ (Done /\ failure = ParseFailure(last_err, last_text)) =>
          /\ Count("generate") = MaxRetries + 1
          /\ requests[Len(requests)].op = "generate"

\* three unparseable generations, two failed repairs, then the failure
C10_Witness ==
    /\ Done
    /\ failure = ParseFailure("JSONDecodeError", Garbage.s)
    /\ Count("generate") = 3
    /\ Count("repair") = 2

(***************************************************************************)
(* Vocabulary of the properties of build_prof_profile                      *)
(***************************************************************************)
\* build_prof_profile has ended, by a return or by an exception
BuildDone == pc = "done" /\ built.t # "unset"

\* the client raised (network, quota): no output of the service was read
ClientRaised == built.t = "raised" /\ built.e = "503 UNAVAILABLE"

\* what build_prof_profile returned holds recency weights
HasWeights(b) == b.t = "dict" /\ "keyword_recency_weights" \in DOMAIN b.d

\* C11: build_prof_profile never raises because of the service's output:
\* whenever the service gave some output, parseable or not and of the expected
\* shape or not, build_prof_profile returns a profile, and that profile holds
\* keyword_recency_weights.
C11_BuildNeverRaises ==
    BuildDone /\ ~ClientRaised => HasWeights(built)

\* 1.0 in the unit of the returned weights: round(v / maxv, 4)
TenThousandths == 10000

\* the mapping under "keyword_recency_weights" of a returned profile
WeightsOf(b) == b.d["keyword_recency_weights"].d

\* the keyword list _build_keyword_recency_weights was called with
KeywordsGiven == PlainKeywords(MethodsOf(EnsureDict(data)))

\* kw, a string with no blank at either end, stands within one line of text,
\* letter case aside
OccursInALine(kw, text) ==
    \E a \in 1..Len(text) :
        /\ a + Len(kw) - 1 <= Len(text)
        /\ Lower(SubSeq(text, a, a + Len(kw) - 1)) = Lower(kw)
        /\ \A b \in a..(a + Len(kw) - 1) : Ch(text, b) # "\n"

\* some keyword of kws that is not blank occurs in a line of text
SomeKeywordOccurs(kws, text) ==
    \E j \in 1..Len(kws) : Strip(kws[j]) # "" /\ OccursInALine(Strip(kws[j]), text)

WeightsNormalized(w, kws, text) ==
    /\ \A k \in DOMAIN w : 0 <= w[k] /\ w[k] <= TenThousandths
    /\ DOMAIN w # {} => \E k \in DOMAIN w : w[k] = TenThousandths
    /\ DOMAIN w = {} <=> ~SomeKeywordOccurs(kws, text)

\* C12: for every publication text and keyword list, every value of the
\* mapping _build_keyword_recency_weights returns lies in [0, 1]; a mapping
\* that is not empty has a value of exactly 1.0; and the mapping is empty
\* exactly when no keyword that is not blank occurs in any line.
C12_WeightsNormalized ==
    BuildDone /\ HasWeights(built) =>
        WeightsNormalized(WeightsOf(built), KeywordsGiven, pubs_text)

\* a mapping with a value strictly between 0 and 1, from a keyword list that
\* repeats a keyword
C12_Witness ==
    /\ BuildDone
    /\ HasWeights(built)
    /\ \E k \in DOMAIN WeightsOf(built) :
           0 < WeightsOf(built)[k] /\ WeightsOf(built)[k] < TenThousandths
    /\ \E j, h \in 1..Len(KeywordsGiven) : j < h /\ KeywordsGiven[j] = KeywordsGiven[h]

\* the maximal runs of word characters of s from position k on, in order
RECURSIVE WordRuns(_, _, _)
WordRuns(s, k, cur) ==
    IF k > Len(s) THEN (IF cur = "" THEN <<>> ELSE <<cur>>)
    ELSE IF Ch(s, k) \in WordSet THEN WordRuns(s, k + 1, cur \o Ch(s, k))
    ELSE (IF cur = "" THEN <<>> ELSE <<cur>>) \o WordRuns(s, k + 1, "")

\* a 4-digit token matching 19xx or 20xx
IsYearToken(tok) ==
    /\ Len(tok) = 4
    /\ SubSeq(tok, 1, 2) \in {"19", "20"}
    /\ Ch(tok, 3) \in DigitSet
    /\ Ch(tok, 4) \in DigitSet

\* the years such tokens of a line name, in order
YearTokens(line) ==
    LET toks == SelectSeq(WordRuns(line, 1, ""), IsYearToken)
    IN  SubSeq([k \in 1..Len(toks) |-> DigitsVal(toks[k], 0)], 1, Len(toks))

\* the age n of the weight 0.5^(n / half_life_years) of a line with these
\* tokens, when the first token y >= from is taken for the line's year and an
\* earlier one, or none, weighs 0.25 = 0.5^2
AgeOf(years, from) ==
    IF years = <<>> THEN 2 * HalfLife
    ELSE IF years[1] < from THEN 2 * HalfLife
    ELSE Max(0, CurrentYear - years[1])

\* the lines of the log weigh what their first year token from "from" on says
LinesWeigh(log, from) ==
    \A k \in 1..Len(log) : log[k].w = AgeOf(YearTokens(log[k].line), from)

\* a line dated half_life_years before current_year weighs exactly half of
\* one dated current_year, and a line dated later weighs the same as that one
HalvesAndCaps(log) ==
    \A k \in 1..Len(log) :
        /\ log[k].y = JInt(CurrentYear) => Units(log[k].w) = WeightOne
        /\ log[k].y = JInt(CurrentYear - HalfLife) => 2 * Units(log[k].w) = WeightOne
        /\ log[k].y.t = "int" /\ log[k].y.n > CurrentYear => Units(log[k].w) = WeightOne

FirstYear == 1900   \* the first year a token matching 19xx or 20xx can name

\* C17 as stated: a line with no year token weighs 0.25 and any other line
\* 0.5^(max(0, current_year - y) / half_life_years) for its first year token
\* y, for every y from 1900 on.
C17_FirstTokenWeighs ==
    BuildDone => LinesWeigh(line_log, FirstYear) /\ HalvesAndCaps(line_log)

\* C17: a publication line weighs 0.25 if it has no 4-digit token matching
\* 19xx or 20xx or if the first such token is below 1950, and otherwise
\* 0.5^(max(0, current_year - y) / half_life_years) for its first such token
\* y (1950 to 2099); a line dated half_life_years before current_year weighs
\* exactly half of a line dated current_year, and a future-dated line weighs
\* the same as a current-year line.
C17_FirstTokenFrom1950Weighs ==
    BuildDone => LinesWeigh(line_log, MinYear) /\ HalvesAndCaps(line_log)

\* a line whose first year token is below 1950, next to a line dated
\* half_life_years before current_year
C17_Witness ==
    /\ BuildDone
    /\ \E k, h \in 1..Len(line_log) :
          /\ YearTokens(line_log[k].line) # <<>>
          /\ YearTokens(line_log[k].line)[1] < MinYear
          /\ line_log[k].w = 2 * HalfLife
          /\ line_log[h].y = JInt(CurrentYear - HalfLife)
          /\ line_log[h].w = HalfLife

(***************************************************************************)
(* Vocabulary of the properties of two invocations                         *)
(***************************************************************************)
\* both invocations ended in the except: branch
BothFellBack == FellBack /\ prev.t = "ranked" /\ prev.failure # ""

\* the entries of two results agree one by one, the prefixed note aside
SameUnnoted(a, b) ==
    /\ Len(a) = Len(b)
    /\ \A k \in 1..Len(a) : Unnoted(a[k]) = Unnoted(b[k])

\* the first entry of a result, and no other, starts with the note of failure e
NotedWith(a, e) ==
    \A k \in 1..Len(a) :
        IF k = 1
        THEN a[k].why_fit.l # <<>> /\ Head(a[k].why_fit.l) = FailedNote(e)
        ELSE a[k] = Unnoted(a[k])

FetchDone == pc = "done" /\ normalized.t = "list"

CanonicalFields == {"agency", "title", "deadline", "published", "link", "summary"}

\* the field names a title or a link is taken from
TitleOrLinkKeys ==
    {"title", "opportunityTitle", "name", "link", "url", "opportunityURL", "href"}

\* the fetched records that have a title or a link
Surviving(cs) ==
    {k \in 1..Len(cs) : \E key \in TitleOrLinkKeys : ~Falsy(Get(cs[k], key, Null))}

WellFormed(x) ==
    /\ ~Falsy(x.title) \/ ~Falsy(x.link)
    /\ \A f \in CanonicalFields : f \in DOMAIN x /\ x[f].t # "null"

\* C14: for any combination of enabled sources, failing or returning
\* records, the list fetch_calls returns is never empty, every listing of it
\* has a non-empty title or a non-empty link and every canonical field,
\* none of them null, and when no fetched record survives the filter the list
\* is exactly the one placeholder record.
C14_NeverEmptyWellFormed ==
    FetchDone =>
        /\ normalized.l # <<>>
        /\ \A k \in 1..Len(normalized.l) : WellFormed(normalized.l[k])
        /\ Surviving(fetched) = {} => normalized.l = <<Placeholder>>
        /\ Surviving(fetched) # {} =>
              /\ Len(normalized.l) = Cardinality(Surviving(fetched))
              /\ \A k \in 1..Len(normalized.l) : normalized.l[k] # Placeholder

\* records were fetched, none of them survived, and a source failed
C14_Witness ==
    /\ FetchDone
    /\ fetched # <<>>
    /\ Surviving(fetched) = {}
    /\ normalized.l = <<Placeholder>>
    /\ Len(errors) > 1

Submitted(ls) == SubSeq(ls, 1, compact_calls_len(ls))

\* C16: an entry of the answer is merged only if its idx is an integer in
\* range for the submitted batch, the at most 50 listings sent in the
\* request: every entry of a merged result is a copy of a submitted listing,
\* and with more than 50 listings no entry of the answer with idx 50 or more
\* yields one.
C16_IdxWithinSubmittedBatch ==
    Merged =>
        \A k \in 1..Len(result) :
            \E j \in 1..Len(Submitted(Listings)) : IsCopyOf(result[k], Listings[j])

(***************************************************************************)
(* C18: the fallback score as the specification words it                   *)
(***************************************************************************)
\* the profile token set: from methods_keywords and themes
ProfileTokens(prof) ==
    _normalize_tokens(Join(GetOr(prof, "methods_keywords", EmptyList).l
                           \o GetOr(prof, "themes", EmptyList).l))

\* the listing token set: from agency, title, summary, deadline
ListingTokens(call) ==
    _normalize_tokens(Join(<<Get(call, "agency", ""), Get(call, "title", ""),
                             Get(call, "summary", ""), Get(call, "deadline", "")>>))

\* 5 if a token set is empty, else min(100, 10 + 6 * |intersection|)
StatedBase(A, B) ==
    IF A = {} \/ B = {} THEN 5
    ELSE Min(100, 10 + 6 * Cardinality(A \cap B))

\* the recency weights of a profile, in quarters; none unless it holds a dict
StatedWeights(prof) ==
    IF Get(prof, "keyword_recency_weights", Null).t = "dict"
    THEN prof["keyword_recency_weights"].d
    ELSE <<>>

\* min(20, 6 * the sum of the weights of the keywords whose lowercased form
\* occurs in the listing text), in quarters
StatedBonus(w, text) ==
    Min(20 * Quarter, 6 * SumOver(w, {kw \in DOMAIN w : Contains(text, Lower(kw))}))

\* clamp(round(base + bonus), 0, 100)
StatedScore(prof, call) ==
    Max(0, Min(100,
        RoundHalfEven(StatedBase(ProfileTokens(prof), ListingTokens(call)) * Quarter
                      + StatedBonus(StatedWeights(prof),
                                    Lower(Join(<<Get(call, "title", ""),
                                                 Get(call, "summary", ""),
                                                 Get(call, "agency", "")>>))),
                      Quarter)))

\* the profile and the listing of the worked example
ExampleProfile == JDict([methods_keywords |-> JList(<<"robotics", "control">>),
                         themes |-> EmptyList])

\* the fallback entries of listing c score n
ScoresOfListing(c, n) ==
    \A k \in 1..Len(result) : IsCopyOf(result[k], c) => result[k].fit_score = n

\* C18: for every profile and listing _fallback_score gives
\* fit_score = clamp(round(base + bonus), 0, 100), with base 5 if the profile
\* token set or the listing token set is empty and min(100, 10 + 6 * overlap)
\* otherwise, and bonus = min(20, 6 * the sum of the recency weights of the
\* keywords that occur in the listing text); keywords {robotics, control}
\* against "Robotics Control Grant / advanced control systems / NSF" with no
\* recency weights give 22, and a profile with no methods_keywords and no
\* themes scores every listing from base 5.
C18_FallbackScoreFormula ==
    FellBack =>
        /\ \A k \in 1..Len(result) : \E c \in ListingSet : IsCopyOf(result[k], c)
        /\ \A c \in ListingSet : ScoresOfListing(c, StatedScore(profile.d, c))
        /\ profile = ExampleProfile => ScoresOfListing(ListingA, 22)
        /\ ProfileTokens(profile.d) = {} =>
              \A c \in ListingSet :
                  ScoresOfListing(c,
                      Max(0, Min(100, RoundHalfEven(5 * Quarter
                          + _recency_overlap_bonus(profile.d, c, FallbackCap, BonusScale),
                          Quarter))))

\* the worked example, scored 22 on the fallback path
C18_Witness ==
    /\ FellBack
    /\ profile = ExampleProfile
    /\ \E k \in 1..Len(result) : IsCopyOf(result[k], ListingA) /\ result[k].fit_score = 22

\* every entry of a result has rank_mode m
AllMode(m) == \A k \in 1..Len(result) : result[k].rank_mode = m

\* turn r of the merge loop raises after an earlier turn has merged an entry
RaisesAfterMerging(prof, ls, ranked, r) ==
    /\ MergeItem(prof, ls, ranked[r]).t = "raise"
    /\ \A q \in 1..(r - 1) : MergeItem(prof, ls, ranked[q]).t # "raise"
    /\ \E q \in 1..(r - 1) : MergeItem(prof, ls, ranked[q]).t = "ok"

\* an error in the middle of merging
MidMergeError ==
    /\ data.t # "unset"
    /\ \E r \in 1..Len(RankedOf(data)) :
           RaisesAfterMerging(profile.d, Listings, RankedOf(data), r)

\* C19: every sequence rank_calls returns is homogeneous in provenance: all
\* its entries have rank_mode "llm" or all have rank_mode "fallback".  After
\* an error in the middle of merging the entries merged so far are discarded
\* and every listing is fallback-scored; and a result of "llm" entries never
\* carries the failure-reason prefix.
C19_HomogeneousProvenance ==
    (Done /\ outcome = "returned") =>
        /\ AllMode("llm") \/ AllMode("fallback")
        /\ FellBack <=> (AllMode("fallback") /\ result # <<>>)
        /\ MidMergeError => FellBack /\ IsFallbackOfAll /\ AllMode("fallback")
        /\ (\E k \in 1..Len(result) : result[k].rank_mode = "llm") =>
               \A k \in 1..Len(result) : ~NotedAt(k)

\* an entry was merged, the next one raised, and the result is the fallback
\* scoring of several listings
C19_Witness ==
    /\ Done
    /\ MidMergeError
    /\ FellBack
    /\ Len(result) > 1
    /\ AllMode("fallback")

\* the service path ran through with an entry of a valid idx, and every
\* entry it merged scores below the threshold
AllMergedBelow(prof, ls, ranked) ==
    /\ \E r \in 1..Len(ranked) : IsDict(ranked[r]) /\ ValidIdx(Get(ranked[r].d, "idx", Null), ls)
    /\ \A r \in 1..Len(ranked) :
          /\ MergeItem(prof, ls, ranked[r]).t # "raise"
          /\ MergeItem(prof, ls, ranked[r]).t = "ok" =>
                 MergeItem(prof, ls, ranked[r]).merged.fit_score < Threshold

\* C20: for a non-empty profile and non-empty listings rank_calls returns
\* the empty sequence exactly when the service path succeeded with at least
\* one entry of a valid idx and every merged entry's final fit_score is below
\* 50; in every other case the result is not empty.
C20_EmptyOnlyWhenAllBelow ==
    (Done /\ ValidInputs /\ outcome = "returned") =>
        (result = <<>> <=>
            /\ HasRankedList(data)
            /\ AllMergedBelow(profile.d, Listings, RankedOf(data)))

\* an answer whose only valid entry ends below 50: the result is empty and
\* nothing fell back
C20_Witness ==
    /\ Done
    /\ ValidInputs
    /\ outcome = "returned"
    /\ result = <<>>
    /\ failure = ""
    /\ HasRankedList(data)
    /\ AllMergedBelow(profile.d, Listings, RankedOf(data))

====
